---------------------------- MODULE Spec2Model ----------------------------
(***************************************************************************)
(* A model of sforgs.py (SF Orgs, a Textual terminal application over the  *)
(* Salesforce CLI): the parsing of the CLI's org listing into the          *)
(* canonical list, the session state of SFOrgsApp (orgs, filtered_orgs,    *)
(* search_query, the loading label, the table cursor), its key and event   *)
(* handlers, and its background workers (load_orgs, run_open_org,          *)
(* run_reauth_org).                                                        *)
(*                                                                         *)
(* Strings that the program inspects character by character (alias,       *)
(* username, name, status, type, instance URL, the search query) are       *)
(* sequences of character codes, so that str.lower(), the substring test   *)
(* `in` and the string order used by sort are computed, not assumed.       *)
(* A key of a raw JSON object is <<>> when the key is absent and <<v>>     *)
(* when it is present with value v.                                        *)
(***************************************************************************)
EXTENDS Integers, Sequences, FiniteSets, TLC

VARIABLES
    orgs,            \* SFOrgsApp.orgs: the canonical list
    filtered_orgs,   \* SFOrgsApp.filtered_orgs: the filtered view
    search_query,    \* SFOrgsApp.search_query
    loading,         \* the #loading-label: [text, display]
    table_display,   \* the #orgs-table's display flag
    cursor_row,      \* the #orgs-table's cursor row
    load_worker,     \* the load_orgs worker not yet finished or cancelled
    events,          \* Worker.StateChanged(SUCCESS) of load_orgs, not yet handled
    workers,         \* the run_open_org and run_reauth_org workers alive
    notice,          \* the last notification shown by notify()
    app_state,       \* "constructed", "running" or "exited"
    cancelled_loads, \* some cancelled load_orgs thread has not returned yet
    latest,          \* what the load_orgs started last returned: <<>>, <<list>>
    org_data,        \* parse_orgs: its argument
    parse_result     \* parse_orgs: its return value

vars == <<orgs, filtered_orgs, search_query, loading, table_display, cursor_row,
          load_worker, events, workers, notice, app_state,
          cancelled_loads, latest, org_data, parse_result>>

-----------------------------------------------------------------------------
(* Strings as sequences of character codes *)

\* "-", the alias and name default
DASH == <<45>>
\* "Connected"
CONNECTED == <<67, 111, 110, 110, 101, 99, 116, 101, 100>>
\* "Unknown"
UNKNOWN == <<85, 110, 107, 110, 111, 119, 110>>
\* "Scratch"
SCRATCH == <<83, 99, 114, 97, 116, 99, 104>>
\* "Dev Hub"
DEV_HUB == <<68, 101, 118, 32, 72, 117, 98>>
\* "Sandbox"
SANDBOX == <<83, 97, 110, 100, 98, 111, 120>>
\* "Production"
PRODUCTION == <<80, 114, 111, 100, 117, 99, 116, 105, 111, 110>>

\* str.lower() on ASCII: A..Z (65..90) map to a..z (97..122)
Lower(s) ==
    [i \in 1..Len(s) |-> IF s[i] >= 65 /\ s[i] <= 90 THEN s[i] + 32 ELSE s[i]]

\* s[i:] starts with q
StartsAt(q, s, i) ==
    /\ i + Len(q) - 1 <= Len(s)
    /\ \A k \in 1..Len(q) : s[i + k - 1] = q[k]

RECURSIVE ScanFrom(_, _, _)
ScanFrom(q, s, i) ==
    IF i + Len(q) - 1 > Len(s) THEN FALSE
    ELSE IF StartsAt(q, s, i) THEN TRUE
    ELSE ScanFrom(q, s, i + 1)

\* Python's `q in s` on strings
Contains(q, s) == ScanFrom(q, s, 1)

\* Python's a < b on strings: by code point, a proper prefix first
RECURSIVE StrLessFrom(_, _, _)
StrLessFrom(a, b, i) ==
    IF i > Len(a) THEN i <= Len(b)
    ELSE IF i > Len(b) THEN FALSE
    ELSE IF a[i] < b[i] THEN TRUE
    ELSE IF a[i] > b[i] THEN FALSE
    ELSE StrLessFrom(a, b, i + 1)

StrLess(a, b) == StrLessFrom(a, b, 1)

-----------------------------------------------------------------------------
(* Raw records of the CLI's JSON and their normalisation *)

\* dict.get(key, default): a raw value is <<>> (absent) or <<v>>
Get(opt, default) == IF opt = <<>> THEN default ELSE opt[1]

\* the truth value of dict.get(key): None when the key is absent
Truthy(opt) == opt # <<>> /\ opt[1] = TRUE

\* get_org_type with isSandbox tested before isDevHub
get_org_type_sandbox_first(org) ==
    IF Truthy(org.isScratch) THEN SCRATCH
    ELSE IF Truthy(org.isSandbox) THEN SANDBOX
    ELSE IF Truthy(org.isDevHub) THEN DEV_HUB
    ELSE PRODUCTION

get_org_type(org) ==
    IF Truthy(org.isScratch) THEN SCRATCH
    ELSE IF Truthy(org.isDevHub) THEN DEV_HUB
    ELSE IF Truthy(org.isSandbox) THEN SANDBOX
    ELSE PRODUCTION

\* Normalize with "" as the default of name
NormalizeNameEmpty(org) ==
    [alias        |-> Get(org.alias, DASH),
     username     |-> Get(org.username, <<>>),
     type         |-> get_org_type(org),
     name         |-> Get(org.name, <<>>),
     status       |-> Get(org.connectedStatus, UNKNOWN),
     is_connected |-> (Get(org.connectedStatus, UNKNOWN) = CONNECTED),
     instance_url |-> Get(org.instanceUrl, <<>>),
     is_default   |-> Get(org.isDefaultUsername, FALSE),
     is_dev_hub   |-> Get(org.isDevHub, FALSE),
     is_sandbox   |-> Get(org.isSandbox, FALSE)]

\* the dict appended to orgs for one raw record
Normalize(org) ==
    [alias        |-> Get(org.alias, DASH),
     username     |-> Get(org.username, <<>>),
     type         |-> get_org_type(org),
     name         |-> Get(org.name, DASH),
     status       |-> Get(org.connectedStatus, UNKNOWN),
     is_connected |-> (Get(org.connectedStatus, UNKNOWN) = CONNECTED),
     instance_url |-> Get(org.instanceUrl, <<>>),
     is_default   |-> Get(org.isDefaultUsername, FALSE),
     is_dev_hub   |-> Get(org.isDevHub, FALSE),
     is_sandbox   |-> Get(org.isSandbox, FALSE)]

\* AlreadySeen with the check of `seen` left out
AlreadySeenNever(username, seen) == FALSE

\* the username is skipped when already seen
AlreadySeen(username, seen) == username \in seen

\* the loop over all_orgs: first occurrence of a username is kept
RECURSIVE ParseLoop(_, _, _, _)
ParseLoop(all_orgs, i, acc, seen) ==
    IF i > Len(all_orgs) THEN acc
    ELSE LET username == Get(all_orgs[i].username, <<>>) IN
         IF AlreadySeen(username, seen)
         THEN ParseLoop(all_orgs, i + 1, acc, seen)
         ELSE ParseLoop(all_orgs, i + 1, Append(acc, Normalize(all_orgs[i])),
                        seen \cup {username})

\* SortKeyLess with the alias compared as written, not lowered
SortKeyLessCased(x, y) ==
    \/ x.is_connected /\ ~y.is_connected
    \/ /\ x.is_connected = y.is_connected
       /\ StrLess(x.alias, y.alias)

\* key(x) < key(y) for key = (not is_connected, alias.lower())
SortKeyLess(x, y) ==
    \/ x.is_connected /\ ~y.is_connected
    \/ /\ x.is_connected = y.is_connected
       /\ StrLess(Lower(x.alias), Lower(y.alias))

\* x goes before the first element whose key is greater than x's
RECURSIVE InsertFrom(_, _, _)
InsertFrom(sorted, x, i) ==
    IF i > Len(sorted) THEN Append(sorted, x)
    ELSE IF SortKeyLess(x, sorted[i])
         THEN SubSeq(sorted, 1, i - 1) \o <<x>> \o SubSeq(sorted, i, Len(sorted))
         ELSE InsertFrom(sorted, x, i + 1)

\* list.sort(key=...): a stable sort
RECURSIVE SortFrom(_, _, _)
SortFrom(list, i, sorted) ==
    IF i > Len(list) THEN sorted
    ELSE SortFrom(list, i + 1, InsertFrom(sorted, list[i], 1))

SortOrgs(list) == SortFrom(list, 1, <<>>)

parse_orgs(data) ==
    LET all_orgs == Get(data.nonScratchOrgs, <<>>) \o Get(data.scratchOrgs, <<>>)
    IN SortOrgs(ParseLoop(all_orgs, 1, <<>>, {}))

\* JSON null as the value of a string key (None): a sequence no string is
NONE == <<0>>

\* parse_orgs raises: the key of the sort calls .lower() on the alias of
\* every record kept, which None does not have (AttributeError)
parse_orgs_raises(data) ==
    LET all_orgs == Get(data.nonScratchOrgs, <<>>) \o Get(data.scratchOrgs, <<>>)
        kept == ParseLoop(all_orgs, 1, <<>>, {})
    IN \E i \in 1..Len(kept) : kept[i].alias = NONE

\* the call parse_orgs(data) as its caller sees it: [raised, value]
ParseOutcome(data) ==
    IF parse_orgs_raises(data) THEN [raised |-> TRUE, value |-> <<>>]
    ELSE [raised |-> FALSE, value |-> parse_orgs(data)]

-----------------------------------------------------------------------------
(* The external tool *)

\* "a", "c", "e", "E", "EB", "Ne", "u", "v", "w", "Expired"
S_a == <<97>>
S_c == <<99>>
S_e == <<101>>
S_E == <<69>>
S_EB == <<69, 66>>
S_Ne == <<78, 101>>
S_u == <<117>>
S_v == <<118>>
S_w == <<119>>
EXPIRED == <<69, 120, 112, 105, 114, 101, 100>>

\* a raw record of the listing with none of the recognised keys
NoKeys ==
    [username |-> <<>>, alias |-> <<>>, connectedStatus |-> <<>>, name |-> <<>>,
     instanceUrl |-> <<>>, isDefaultUsername |-> <<>>, isScratch |-> <<>>,
     isDevHub |-> <<>>, isSandbox |-> <<>>]

\* the JSON object {} as org_data
EmptyDict == [nonScratchOrgs |-> <<>>, scratchOrgs |-> <<>>]

\* The listings the tool answers `sf org list --json` with during a session.
\* For the query "e" the records of ListingA match through the alias only
\* (once lowered), through no searched field (its status and instance URL
\* hold an "e") and through the name only; those of ListingB through the
\* username only and the type only. The two listings share the username "u".
ListingA ==
    [nonScratchOrgs |-> <<
        << [NoKeys EXCEPT !.username = <<S_u>>, !.alias = <<S_EB>>,
                          !.connectedStatus = <<CONNECTED>>,
                          !.isDefaultUsername = <<TRUE>>,
                          !.isSandbox = <<FALSE>>],
           [NoKeys EXCEPT !.username = <<S_v>>, !.connectedStatus = <<EXPIRED>>,
                          !.instanceUrl = <<S_e>>, !.isSandbox = <<TRUE>>] >> >>,
     scratchOrgs |-> <<
        << [NoKeys EXCEPT !.username = <<S_w>>, !.alias = <<S_c>>,
                          !.connectedStatus = <<CONNECTED>>, !.name = <<S_Ne>>,
                          !.isScratch = <<TRUE>>] >> >>]

ListingB ==
    [nonScratchOrgs |-> <<
        << [NoKeys EXCEPT !.username = <<S_E>>, !.alias = <<S_c>>,
                          !.connectedStatus = <<CONNECTED>>],
           [NoKeys EXCEPT !.username = <<S_u>>, !.alias = <<DASH>>,
                          !.isDevHub = <<TRUE>>, !.isSandbox = <<TRUE>>] >> >>,
     scratchOrgs |-> <<>>]

ListingEmpty == [nonScratchOrgs |-> << <<>> >>, scratchOrgs |-> << <<>> >>]

Listings == {ListingA, ListingB, ListingEmpty}

\* What running `sf org list --json` can come to: the tool is not installed,
\* it runs past the timeout, its output is not JSON, its JSON is not an
\* object, or its JSON is an object with or without a "result".
ListResponses ==
    {[kind |-> k, result |-> <<>>] :
        k \in {"not_found", "timeout", "bad_json", "bad_shape", "json"}}
    \cup {[kind |-> "json", result |-> <<l>>] : l \in Listings}

\* the exception get_sf_orgs raises on a response, "" when it returns
FetchException(resp) ==
    CASE resp.kind = "not_found" -> "FileNotFoundError"
      [] resp.kind = "timeout"   -> "TimeoutExpired"
      [] resp.kind = "bad_json"  -> "JSONDecodeError"
      [] resp.kind = "bad_shape" -> "AttributeError"
      [] OTHER                   -> ""

\* data.get("result", {})
get_sf_orgs(resp) == Get(resp.result, EmptyDict)

\* whether load_orgs catches an exception of the given class
LoadOrgsCatches(exception) == TRUE

\* the load_orgs worker: [raised, value]
load_orgs(resp) ==
    IF FetchException(resp) = ""
    THEN IF ~ParseOutcome(get_sf_orgs(resp)).raised
         THEN [raised |-> FALSE, value |-> parse_orgs(get_sf_orgs(resp))]
         ELSE IF LoadOrgsCatches("AttributeError")
              THEN [raised |-> FALSE, value |-> <<>>]
              ELSE [raised |-> TRUE, value |-> <<>>]
    ELSE IF LoadOrgsCatches(FetchException(resp))
         THEN [raised |-> FALSE, value |-> <<>>]
         ELSE [raised |-> TRUE, value |-> <<>>]

\* how `sf org open` and `sf org login web` can end: exit status 0, a
\* non-zero exit status (CalledProcessError), the tool not installed
\* (FileNotFoundError, which open_org and reauth_org do not catch)
CommandOutcomes == {"ok", "nonzero", "not_found"}

\* the login URL reauth_org chooses
reauth_login_url(is_sandbox) ==
    IF is_sandbox THEN "test.salesforce.com" ELSE "login.salesforce.com"

\* what reauth_org extends cmd with
reauth_alias_args(alias_or_username) ==
    IF alias_or_username # <<>> /\ alias_or_username # DASH
    THEN <<"-a", alias_or_username>> ELSE <<>>

\* the command line reauth_org runs
reauth_cmd(alias_or_username, is_sandbox) ==
    <<"sf", "org", "login", "web", "-r",
      <<"https://", reauth_login_url(is_sandbox)>> >>
    \o reauth_alias_args(alias_or_username)

\* the command line open_org runs
open_cmd(alias_or_username) == <<"sf", "org", "open", "-o", alias_or_username>>

-----------------------------------------------------------------------------
(* SFOrgsApp *)

LOADING_TEXT == "Loading orgs..."
REFRESHING_TEXT == "Refreshing..."
NO_MATCH_TEXT == "No matching orgs found"
NO_ORGS_TEXT == "No authenticated orgs. Run: sf org login web"

\* the values Input.Changed carries: "" and "E"
SearchValues == {<<>>, S_E}

\* notify(): the message (without the org it names) and its severity
Notify(kind, severity) == [kind |-> kind, severity |-> severity]

NoNotice == Notify("", "")

\* Matches with the status searched as well
MatchesStatusToo(query, org) ==
    \/ Contains(query, Lower(org.alias))
    \/ Contains(query, Lower(org.username))
    \/ Contains(query, Lower(org.type))
    \/ Contains(query, Lower(org.name))
    \/ Contains(query, Lower(org.status))

\* the condition of the list comprehension of on_search_changed
Matches(query, org) ==
    \/ Contains(query, Lower(org.alias))
    \/ Contains(query, Lower(org.username))
    \/ Contains(query, Lower(org.type))
    \/ Contains(query, Lower(org.name))

RECURSIVE FilterFrom(_, _, _)
FilterFrom(list, query, i) ==
    IF i > Len(list) THEN <<>>
    ELSE IF Matches(query, list[i])
         THEN <<list[i]>> \o FilterFrom(list, query, i + 1)
         ELSE FilterFrom(list, query, i + 1)

\* the search_query that on_search_changed assigns
SearchQuery(value) == Lower(value)

\* the filtered_orgs that on_search_changed assigns
SearchFiltered(list, query) ==
    IF query = <<>> THEN list ELSE FilterFrom(list, query, 1)

\* CompletionFiltered with the assignment to filtered_orgs left out
CompletionFilteredStale(new_orgs, old_filtered, query) == old_filtered

\* the filtered_orgs that on_worker_state_changed assigns: self.orgs.copy()
CompletionFiltered(new_orgs, old_filtered, query) == new_orgs

\* the text populate_table gives the label when the filtered view is empty
EmptyText(query) == IF query # <<>> THEN NO_MATCH_TEXT ELSE NO_ORGS_TEXT

\* populate_table: the label, the table's display and its cursor (clear()
\* puts the cursor back on the first row)
PopulateTable(filtered, query) ==
    /\ loading' = IF filtered = <<>>
                  THEN [text |-> EmptyText(query), display |-> TRUE]
                  ELSE [text |-> loading.text, display |-> FALSE]
    /\ table_display' = (filtered # <<>>)
    /\ cursor_row' = 0

\* get_selected_org: <<>> for None, <<org>> otherwise
get_selected_org ==
    IF cursor_row < Len(filtered_orgs) THEN <<filtered_orgs[cursor_row + 1]>>
    ELSE <<>>

\* org["alias"] if org["alias"] != "-" else org["username"]
AliasOrUsername(org) == IF org.alias # DASH THEN org.alias ELSE org.username

RemoveAt(seq, i) == SubSeq(seq, 1, i - 1) \o SubSeq(seq, i + 1, Len(seq))

\* self.load_orgs() on the main thread (work, exclusive): the workers of the
\* group are cancelled and a new load_orgs worker runs. A cancelled load_orgs
\* worker never becomes SUCCESS, so that load_worker is the one worker whose
\* result can still arrive. A cancelled run_open_org or run_reauth_org thread
\* runs on as before (its notifications and its load_orgs call included);
\* only an exception it ends with is dropped. `ws` is the worker list as the
\* caller leaves it.
StartLoad(ws) ==
    /\ load_worker' = "running"
    /\ cancelled_loads' = (cancelled_loads \/ load_worker = "running")
    /\ latest' = <<>>
    /\ workers' = ws

\* an upper bound on the Worker.StateChanged messages waiting to be handled
MaxEvents == 1
\* an upper bound on the run_open_org and run_reauth_org workers alive at once
MaxWorkers == 1

AppVars == <<orgs, filtered_orgs, search_query, loading, table_display,
             cursor_row, load_worker, events, workers, notice, app_state,
             cancelled_loads, latest>>

PureVars == <<org_data, parse_result>>

\* the load_orgs threads: the cancelled ones and the result of the last
FetchVars == <<cancelled_loads, latest>>

\* __init__ and compose
Init ==
    /\ orgs = <<>>
    /\ filtered_orgs = <<>>
    /\ search_query = <<>>
    /\ loading = [text |-> LOADING_TEXT, display |-> TRUE]
    /\ table_display = TRUE
    /\ cursor_row = 0
    /\ load_worker = "none"
    /\ events = <<>>
    /\ workers = <<>>
    /\ notice = NoNotice
    /\ app_state = "constructed"
    /\ cancelled_loads = FALSE
    /\ latest = <<>>
    /\ org_data = EmptyDict
    /\ parse_result = <<>>

on_mount ==
    /\ app_state = "constructed"
    /\ app_state' = "running"
    /\ table_display' = FALSE
    /\ StartLoad(workers)
    /\ UNCHANGED <<orgs, filtered_orgs, search_query, loading, cursor_row,
                   events, notice, PureVars>>

\* The load_orgs thread ends. When it returns, its worker becomes SUCCESS and
\* Worker.StateChanged is posted; an exception it let through would leave the
\* worker in ERROR, which ends the application (exit_on_error).
LoadOrgsReturn(resp) ==
    /\ app_state = "running"
    /\ load_worker = "running"
    /\ Len(events) < MaxEvents
    /\ IF load_orgs(resp).raised
       THEN /\ app_state' = "exited"
            /\ UNCHANGED events
       ELSE /\ events' = Append(events, load_orgs(resp).value)
            /\ UNCHANGED app_state
    /\ load_worker' = "none"
    /\ latest' = <<load_orgs(resp).value>>
    /\ UNCHANGED cancelled_loads
    /\ UNCHANGED <<orgs, filtered_orgs, search_query, loading, table_display,
                   cursor_row, workers, notice, PureVars>>

\* CancelledResult with the result of a cancelled worker posted like any other
CancelledResultPosted(evs, value) ==
    IF Len(evs) < MaxEvents THEN Append(evs, value) ELSE evs

\* the completions waiting after a cancelled load_orgs thread has returned
\* `value`: the worker is CANCELLED, it posts no SUCCESS and its result is
\* dropped
CancelledResult(evs, value) == evs

\* the lists a load_orgs thread can return
LoadResults == {load_orgs(resp).value : resp \in ListResponses}

\* The thread of a cancelled load_orgs worker ends: the thread of a worker
\* cannot be stopped, so `sf org list` runs to its end (or its timeout).
\* Other cancelled threads may still be running.
CancelledLoadReturn(value) ==
    /\ app_state = "running"
    /\ cancelled_loads
    /\ cancelled_loads' \in BOOLEAN
    /\ events' = CancelledResult(events, value)
    /\ UNCHANGED <<orgs, filtered_orgs, search_query, loading, table_display,
                   cursor_row, load_worker, workers, notice, app_state, latest,
                   PureVars>>

\* CompletionOrgs with the result added to the list (extend) instead of
\* assigned
CompletionOrgsExtended(old_orgs, result) == old_orgs \o result

\* self.orgs after on_worker_state_changed: event.worker.result or []
CompletionOrgs(old_orgs, result) == result

\* Worker.StateChanged with state SUCCESS and worker name load_orgs
on_worker_state_changed ==
    /\ app_state = "running"
    /\ events # <<>>
    /\ orgs' = CompletionOrgs(orgs, Head(events))
    /\ filtered_orgs' = CompletionFiltered(orgs', filtered_orgs, search_query)
    /\ PopulateTable(filtered_orgs', search_query)
    /\ events' = Tail(events)
    /\ UNCHANGED <<search_query, load_worker, workers, notice, app_state,
                   PureVars,
                   FetchVars>>

action_refresh ==
    /\ app_state = "running"
    /\ loading' = [text |-> REFRESHING_TEXT, display |-> TRUE]
    /\ table_display' = FALSE
    /\ notice' = Notify("Refreshing orgs...", "information")
    /\ StartLoad(workers)
    /\ UNCHANGED <<orgs, filtered_orgs, search_query, cursor_row, events,
                   app_state, PureVars>>

action_clear_search ==
    /\ app_state = "running"
    /\ search_query' = <<>>
    /\ filtered_orgs' = orgs
    /\ PopulateTable(filtered_orgs', search_query')
    /\ UNCHANGED <<orgs, load_worker, events, workers, notice, app_state,
                   PureVars,
                   FetchVars>>

\* SearchOrgs with the comprehension assigned to self.orgs as well
SearchOrgsFiltered(list, query) == SearchFiltered(list, query)

\* self.orgs after on_search_changed, which only reads it
SearchOrgs(list, query) == list

\* SearchView with the comprehension added to the view (+=) instead of
\* assigned
SearchViewExtending(old_filtered, list, query) ==
    IF query = <<>> THEN list ELSE old_filtered \o SearchFiltered(list, query)

\* self.filtered_orgs after on_search_changed: assigned, the old view unread
SearchView(old_filtered, list, query) == SearchFiltered(list, query)

on_search_changed(value) ==
    /\ app_state = "running"
    /\ search_query' = SearchQuery(value)
    /\ filtered_orgs' = SearchView(filtered_orgs, orgs, search_query')
    /\ orgs' = SearchOrgs(orgs, search_query')
    /\ PopulateTable(filtered_orgs', search_query')
    /\ UNCHANGED <<load_worker, events, workers, notice, app_state, PureVars,
                   FetchVars>>

\* DataTable.action_cursor_down
action_cursor_down ==
    /\ app_state = "running"
    /\ cursor_row + 1 < Len(filtered_orgs)
    /\ cursor_row' = cursor_row + 1
    /\ UNCHANGED <<orgs, filtered_orgs, search_query, loading, table_display,
                   load_worker, events, workers, notice, app_state, PureVars,
                   FetchVars>>

\* DataTable.action_cursor_up
action_cursor_up ==
    /\ app_state = "running"
    /\ cursor_row > 0
    /\ cursor_row' = cursor_row - 1
    /\ UNCHANGED <<orgs, filtered_orgs, search_query, loading, table_display,
                   load_worker, events, workers, notice, app_state, PureVars,
                   FetchVars>>

\* OpenWorker with the alias passed whatever it is
OpenWorkerAlias(org) ==
    [name |-> "run_open_org", alias_or_username |-> org.alias,
     is_sandbox |-> FALSE, pc |-> "run"]

\* the worker action_open_org starts for an org
OpenWorker(org) ==
    [name |-> "run_open_org", alias_or_username |-> AliasOrUsername(org),
     is_sandbox |-> FALSE, pc |-> "run"]

\* OpenRefused with the test of is_connected left out
OpenRefusedNever(org) == FALSE

\* action_open_org returns after a warning: not org["is_connected"]
OpenRefused(org) == ~org.is_connected

action_open_org ==
    /\ app_state = "running"
    /\ LET sel == get_selected_org IN
        IF sel = <<>>
        THEN /\ notice' = Notify("No org selected", "warning")
             /\ UNCHANGED workers
        ELSE IF OpenRefused(sel[1])
        THEN /\ notice' = Notify("Session expired - press 'a' to re-authenticate",
                                 "warning")
             /\ UNCHANGED workers
        ELSE /\ Len(workers) < MaxWorkers
             /\ notice' = Notify("Opening", "information")
             /\ workers' = Append(workers, OpenWorker(sel[1]))
    /\ UNCHANGED <<orgs, filtered_orgs, search_query, loading, table_display,
                   cursor_row, load_worker, events, app_state, PureVars,
                   FetchVars>>

\* OpenNotice with the severity of a success for every outcome
OpenNoticeInformation(success) ==
    IF success THEN Notify("Opened", "information")
    ELSE Notify("Failed to open org", "information")

\* the notice run_open_org shows for the outcome of open_org
OpenNotice(success) ==
    IF success THEN Notify("Opened", "information")
    ELSE Notify("Failed to open org", "error")

\* run_open_org: open_org ends and its outcome is notified on the main
\* thread. An exception other than CalledProcessError leaves the worker in
\* ERROR, which ends the application (exit_on_error), unless a load_orgs
\* started meanwhile cancelled the worker: either can happen.
OpenFinish(i, outcome) ==
    /\ app_state = "running"
    /\ workers[i].name = "run_open_org"
    /\ IF outcome = "not_found"
       THEN /\ app_state' \in {"exited", app_state}
            /\ UNCHANGED notice
       ELSE /\ notice' = OpenNotice(outcome = "ok")
            /\ UNCHANGED app_state
    /\ workers' = RemoveAt(workers, i)
    /\ UNCHANGED <<orgs, filtered_orgs, search_query, loading, table_display,
                   cursor_row, load_worker, events, PureVars,
                   FetchVars>>

\* ReauthWorker with the endpoint chosen by the derived type
ReauthWorkerByType(org) ==
    [name |-> "run_reauth_org", alias_or_username |-> AliasOrUsername(org),
     is_sandbox |-> (org.type = SANDBOX), pc |-> "run"]

\* the worker action_reauth starts for an org
ReauthWorker(org) ==
    [name |-> "run_reauth_org", alias_or_username |-> AliasOrUsername(org),
     is_sandbox |-> org.is_sandbox, pc |-> "run"]

action_reauth ==
    /\ app_state = "running"
    /\ LET sel == get_selected_org IN
        IF sel = <<>>
        THEN /\ notice' = Notify("No org selected", "warning")
             /\ UNCHANGED workers
        ELSE /\ Len(workers) < MaxWorkers
             /\ notice' = Notify("Opening login page for", "information")
             /\ workers' = Append(workers, ReauthWorker(sel[1]))
    /\ UNCHANGED <<orgs, filtered_orgs, search_query, loading, table_display,
                   cursor_row, load_worker, events, app_state, PureVars,
                   FetchVars>>

\* the notice run_reauth_org shows for the outcome of reauth_org
ReauthNotice(success) ==
    IF success THEN Notify("Re-authenticated", "information")
    ELSE Notify("Re-authentication failed", "error")

\* ReauthRefreshes with the test of `success` inverted
ReauthRefreshesOnFailure(success) == ~success

\* whether run_reauth_org goes on to call load_orgs
ReauthRefreshes(success) == success

\* the worker once reauth_org returned: its arguments are no longer read
AfterReauth(w) == [w EXCEPT !.pc = "load", !.alias_or_username = <<>>,
                            !.is_sandbox = FALSE]

\* run_reauth_org: reauth_org ends and its outcome is notified on the main
\* thread; an exception other than CalledProcessError as in OpenFinish
ReauthFinish(i, outcome) ==
    /\ app_state = "running"
    /\ workers[i].name = "run_reauth_org"
    /\ workers[i].pc = "run"
    /\ IF outcome = "not_found"
       THEN /\ app_state' \in {"exited", app_state}
            /\ workers' = RemoveAt(workers, i)
            /\ UNCHANGED notice
       ELSE /\ notice' = ReauthNotice(outcome = "ok")
            /\ workers' = IF ReauthRefreshes(outcome = "ok")
                          THEN [workers EXCEPT ![i] = AfterReauth(workers[i])]
                          ELSE RemoveAt(workers, i)
            /\ UNCHANGED app_state
    /\ UNCHANGED <<orgs, filtered_orgs, search_query, loading, table_display,
                   cursor_row, load_worker, events, PureVars,
                   FetchVars>>

\* run_reauth_org, its call_from_thread(self.load_orgs)
ReauthLoad(i) ==
    /\ app_state = "running"
    /\ workers[i].pc = "load"
    /\ StartLoad(RemoveAt(workers, i))
    /\ UNCHANGED <<orgs, filtered_orgs, search_query, loading, table_display,
                   cursor_row, events, notice, app_state, PureVars>>

Next ==
    \/ on_mount
    \/ \E resp \in ListResponses : LoadOrgsReturn(resp)
    \/ \E value \in LoadResults : CancelledLoadReturn(value)
    \/ on_worker_state_changed
    \/ action_refresh
    \/ action_clear_search
    \/ \E value \in SearchValues : on_search_changed(value)
    \/ action_cursor_down
    \/ action_cursor_up
    \/ action_open_org
    \/ \E i \in DOMAIN workers : \E outcome \in CommandOutcomes :
          OpenFinish(i, outcome)
    \/ action_reauth
    \/ \E i \in DOMAIN workers : \E outcome \in CommandOutcomes :
          ReauthFinish(i, outcome)
    \/ \E i \in DOMAIN workers : ReauthLoad(i)

Spec == Init /\ [][Next]_vars

\* call_from_thread: a callback handed to the running application's event
\* loop is run
FairSpec == Spec /\ WF_vars(\E i \in DOMAIN workers : ReauthLoad(i))

-----------------------------------------------------------------------------
(* parse_orgs on its own *)

\* "B"
S_B == <<66>>

\* an upper bound on the raw records of a listing given to parse_orgs
MaxRecords == 3

\* Raw records for parse_orgs: the username absent, empty, "u" or "v", the
\* alias "a" or "B", the status "Connected" or absent
ParsePool ==
    {[NoKeys EXCEPT !.username = u, !.alias = <<a>>, !.connectedStatus = st] :
        u \in {<<>>, << <<>> >>, <<S_u>>, <<S_v>>},
        a \in {S_a, S_B},
        st \in {<<>>, <<CONNECTED>>}}

\* a JSON array as the value of a key, or the key left out when it is empty
ArrayOrAbsent(list) == IF list = <<>> THEN {<<>>, <<list>>} ELSE {<<list>>}

\* the ways to give the records of `all` as two arrays, the first j of them
\* as nonScratchOrgs
Splits(all, j) ==
    {[nonScratchOrgs |-> ns, scratchOrgs |-> sc] :
        ns \in ArrayOrAbsent(SubSeq(all, 1, j)),
        sc \in ArrayOrAbsent(SubSeq(all, j + 1, Len(all)))}

ParseInit ==
    /\ orgs = <<>>
    /\ filtered_orgs = <<>>
    /\ search_query = <<>>
    /\ loading = [text |-> LOADING_TEXT, display |-> TRUE]
    /\ table_display = TRUE
    /\ cursor_row = 0
    /\ load_worker = "none"
    /\ events = <<>>
    /\ workers = <<>>
    /\ notice = NoNotice
    /\ app_state = "constructed"
    /\ cancelled_loads = FALSE
    /\ latest = <<>>
    /\ \E k \in 0..MaxRecords : \E all \in [1..k -> ParsePool] :
          \E j \in 0..k : org_data \in Splits(all, j)
    /\ parse_result = <<>>

\* the call parse_orgs(org_data); parse_result is <<>> before it returns
ParseApply ==
    /\ parse_result = <<>>
    /\ parse_result' = <<parse_orgs(org_data)>>
    /\ UNCHANGED <<AppVars, org_data>>

ParseNext == ParseApply

ParseSpec == ParseInit /\ [][ParseNext]_vars

-----------------------------------------------------------------------------
(* parse_orgs on one record with any of its keys missing *)

\* One raw record: each of the three flags absent, false or true, the alias
\* absent, "a" or null, and each other key absent or there with a value that
\* is not its default
NormalizePool ==
    {[isScratch |-> f1, isDevHub |-> f2, isSandbox |-> f3, alias |-> a,
      username |-> u, name |-> n, connectedStatus |-> st, instanceUrl |-> url,
      isDefaultUsername |-> d] :
        f1 \in {<<>>, <<TRUE>>, <<FALSE>>},
        f2 \in {<<>>, <<TRUE>>, <<FALSE>>},
        f3 \in {<<>>, <<TRUE>>, <<FALSE>>},
        a \in {<<>>, <<S_a>>, <<NONE>>},
        u \in {<<>>, <<S_u>>},
        n \in {<<>>, <<S_Ne>>},
        st \in {<<>>, <<CONNECTED>>},
        url \in {<<>>, <<S_e>>},
        d \in {<<>>, <<TRUE>>}}

NormalizeInit ==
    /\ orgs = <<>>
    /\ filtered_orgs = <<>>
    /\ search_query = <<>>
    /\ loading = [text |-> LOADING_TEXT, display |-> TRUE]
    /\ table_display = TRUE
    /\ cursor_row = 0
    /\ load_worker = "none"
    /\ events = <<>>
    /\ workers = <<>>
    /\ notice = NoNotice
    /\ app_state = "constructed"
    /\ cancelled_loads = FALSE
    /\ latest = <<>>
    /\ \E rec \in NormalizePool :
          org_data \in {[nonScratchOrgs |-> << <<rec>> >>, scratchOrgs |-> <<>>],
                        [nonScratchOrgs |-> <<>>, scratchOrgs |-> << <<rec>> >>]}
    /\ parse_result = <<>>

\* the call parse_orgs(org_data) in the try of load_orgs, which returns or
\* raises; parse_result is <<>> before it ends
ParseCall ==
    /\ parse_result = <<>>
    /\ parse_result' = <<ParseOutcome(org_data)>>
    /\ UNCHANGED <<AppVars, org_data>>

NormalizeNext == ParseCall

NormalizeSpec == NormalizeInit /\ [][NormalizeNext]_vars

-----------------------------------------------------------------------------
(* The open and re-authenticate actions on their own *)

\* Raw records for the actions: each of isScratch, isDevHub and isSandbox
\* absent, true or false, the alias absent, "-", "" or "a", the username
\* absent or "u", the status absent or "Connected"
DispatchPool ==
    {[NoKeys EXCEPT !.isScratch = f1, !.isDevHub = f2, !.isSandbox = f3,
                    !.alias = a, !.username = u, !.connectedStatus = st] :
        f1 \in {<<>>, <<TRUE>>, <<FALSE>>},
        f2 \in {<<>>, <<TRUE>>, <<FALSE>>},
        f3 \in {<<>>, <<TRUE>>, <<FALSE>>},
        a \in {<<>>, <<DASH>>, << <<>> >>, <<S_a>>},
        u \in {<<>>, <<S_u>>},
        st \in {<<>>, <<CONNECTED>>}}

\* The session once on_worker_state_changed has handled the first fetch,
\* which returned a listing of one raw record (kept in org_data)
DispatchInit ==
    /\ org_data \in {[nonScratchOrgs |-> << <<raw>> >>, scratchOrgs |-> << <<>> >>] :
                        raw \in DispatchPool}
    /\ orgs = parse_orgs(org_data)
    /\ filtered_orgs = orgs
    /\ search_query = <<>>
    /\ loading = [text |-> LOADING_TEXT, display |-> FALSE]
    /\ table_display = TRUE
    /\ cursor_row = 0
    /\ load_worker = "none"
    /\ events = <<>>
    /\ workers = <<>>
    /\ notice = NoNotice
    /\ app_state = "running"
    /\ cancelled_loads = FALSE
    /\ latest = <<orgs>>
    /\ parse_result = <<>>

DispatchNext ==
    \/ action_open_org
    \/ \E i \in DOMAIN workers : \E outcome \in CommandOutcomes :
          OpenFinish(i, outcome)
    \/ action_reauth
    \/ \E i \in DOMAIN workers : \E outcome \in CommandOutcomes :
          ReauthFinish(i, outcome)
    \/ \E i \in DOMAIN workers : ReauthLoad(i)

DispatchSpec == DispatchInit /\ [][DispatchNext]_vars

-----------------------------------------------------------------------------
(* The properties checked *)

\* q occurs in s as a run of consecutive characters
IsSubstring(q, s) ==
    \E i \in 1..(Len(s) - Len(q) + 1) : SubSeq(s, i, i + Len(q) - 1) = q

\* a <= b in the order of strings
StrLeq(a, b) ==
    \/ a = b
    \/ \E k \in 1..Len(b) :
          /\ k - 1 <= Len(a)
          /\ SubSeq(a, 1, k - 1) = SubSeq(b, 1, k - 1)
          /\ (k > Len(a) \/ a[k] < b[k])

\* the raw records given to parse_orgs, nonScratchOrgs first
AllRaw ==
    (IF org_data.nonScratchOrgs = <<>> THEN <<>> ELSE org_data.nonScratchOrgs[1])
    \o (IF org_data.scratchOrgs = <<>> THEN <<>> ELSE org_data.scratchOrgs[1])

\* the username of a raw record, "" when it has none
RawUsername(raw) == IF raw.username = <<>> THEN <<>> ELSE raw.username[1]

\* the place in AllRaw of the first record with the username
FirstIndex(username) ==
    CHOOSE k \in 1..Len(AllRaw) :
        /\ RawUsername(AllRaw[k]) = username
        /\ \A m \in 1..(k - 1) : RawUsername(AllRaw[m]) # username

\* the record has the fields of the raw record, defaults where it has none
FieldsOf(raw, rec) ==
    /\ rec.alias = (IF raw.alias = <<>> THEN DASH ELSE raw.alias[1])
    /\ rec.status = (IF raw.connectedStatus = <<>> THEN UNKNOWN
                     ELSE raw.connectedStatus[1])
    /\ rec.name = (IF raw.name = <<>> THEN DASH ELSE raw.name[1])
    /\ rec.instance_url = (IF raw.instanceUrl = <<>> THEN <<>>
                           ELSE raw.instanceUrl[1])
    /\ rec.is_default = (raw.isDefaultUsername = <<TRUE>>)
    /\ rec.is_dev_hub = (raw.isDevHub = <<TRUE>>)
    /\ rec.is_sandbox = (raw.isSandbox = <<TRUE>>)

\* C5: the list parse_orgs returns has one entry for each username of the
\* input (a missing username counting as ""), no two entries with the same
\* username, and each entry has the fields of the first raw record with its
\* username, nonScratchOrgs coming before scratchOrgs.
C5_FirstOccurrenceWins ==
    parse_result # <<>> =>
        LET result == parse_result[1] IN
        /\ \A i, j \in 1..Len(result) :
              i # j => result[i].username # result[j].username
        /\ {result[i].username : i \in 1..Len(result)}
              = {RawUsername(AllRaw[k]) : k \in 1..Len(AllRaw)}
        /\ \A i \in 1..Len(result) :
              FieldsOf(AllRaw[FirstIndex(result[i].username)], result[i])

\* C5: parse_orgs has returned for an input in which a later record repeats
\* the username of an earlier one with another alias, and in which a missing
\* username and an empty one both occur
C5_Witness ==
    /\ parse_result # <<>>
    /\ Len(parse_result[1]) >= 2
    /\ \E k, m \in 1..Len(AllRaw) :
          /\ k < m
          /\ RawUsername(AllRaw[k]) = RawUsername(AllRaw[m])
          /\ AllRaw[k].username # AllRaw[m].username
          /\ AllRaw[k].alias # AllRaw[m].alias
          /\ k <= Len(Get(org_data.nonScratchOrgs, <<>>))
          /\ m > Len(Get(org_data.nonScratchOrgs, <<>>))

\* C6: the list parse_orgs returns is ordered connected first, then by the
\* lowered alias ascending, and records equal in both keep the order of their
\* first occurrences in the input.
C6_SortedStable ==
    parse_result # <<>> =>
        LET result == parse_result[1] IN
        \A i, j \in 1..Len(result) :
            i < j =>
              /\ \/ result[i].is_connected /\ ~result[j].is_connected
                 \/ /\ result[i].is_connected = result[j].is_connected
                    /\ StrLeq(Lower(result[i].alias), Lower(result[j].alias))
              /\ (/\ result[i].is_connected = result[j].is_connected
                  /\ Lower(result[i].alias) = Lower(result[j].alias))
                 => FirstIndex(result[i].username) < FirstIndex(result[j].username)

\* C6: parse_orgs has returned three records that it had to reorder: an
\* unconnected one came first in the input, "B" came before "a", and two records have equal keys
C6_Witness ==
    /\ parse_result # <<>>
    /\ Len(parse_result[1]) = 3
    /\ ~Normalize(AllRaw[1]).is_connected
    /\ parse_result[1][1].is_connected
    /\ \E i, j \in 1..3 :
          /\ i < j
          /\ parse_result[1][i].alias = S_a
          /\ parse_result[1][j].alias = S_B
          /\ FirstIndex(parse_result[1][j].username)
                < FirstIndex(parse_result[1][i].username)
    /\ \E i, j \in 1..3 :
          /\ i < j
          /\ parse_result[1][i].is_connected = parse_result[1][j].is_connected
          /\ parse_result[1][i].alias = parse_result[1][j].alias

\* the one raw record of the listing DispatchSpec starts from
TheRaw == org_data.nonScratchOrgs[1][1]

\* the command line a run_reauth_org worker runs
CmdOf(w) == reauth_cmd(w.alias_or_username, w.is_sandbox)

\* the host of the login URL in a command line of reauth_org
LoginHost(cmd) == cmd[6][2]

\* the command line ends with -a and a value
HasAliasArgument(cmd) == Len(cmd) = 8 /\ cmd[7] = "-a"

\* the run_reauth_org workers that are about to run their command
ReauthStarted == {i \in DOMAIN workers : /\ workers[i].name = "run_reauth_org"
                                         /\ workers[i].pc = "run"}

C3_AliasArgumentIffAlias ==
    \A i \in ReauthStarted :
        /\ HasAliasArgument(CmdOf(workers[i])) <=> (orgs[1].alias # DASH)
        /\ HasAliasArgument(CmdOf(workers[i]))
              => CmdOf(workers[i])[8] = orgs[1].alias

\* an org record is kept for a lowered query
Keeps(query, org) ==
    \/ query = <<>>
    \/ IsSubstring(query, Lower(org.alias))
    \/ IsSubstring(query, Lower(org.username))
    \/ IsSubstring(query, Lower(org.type))
    \/ IsSubstring(query, Lower(org.name))

\* the records of a list kept for a lowered query, in the list's order
KeptOf(list, query) == SelectSeq(list, LAMBDA org : Keeps(query, org))

\* C1, as claimed: in every state the filtered view is the filter applied to
\* the canonical list with the current search query.
C1_FilteredViewInSync == filtered_orgs = KeptOf(orgs, search_query)

\* sub is list with some of its elements left out
IsSubsequence(sub, list) ==
    \E f \in [1..Len(sub) -> 1..Len(list)] :
        /\ \A i, j \in 1..Len(sub) : i < j => f[i] < f[j]
        /\ \A i \in 1..Len(sub) : list[f[i]] = sub[i]

\* C4: in every state the filtered view is a subsequence of the canonical
\* list: its records are records of orgs, in the order they have in orgs.
C4_FilteredIsSubsequence == IsSubsequence(filtered_orgs, orgs)

\* C4: a query is active and the view holds two of the three records of the
\* canonical list
C4_Witness ==
    /\ search_query # <<>>
    /\ Len(orgs) = 3
    /\ Len(filtered_orgs) = 2

\* C7: a run_reauth_org worker whose login exited with status 0 goes on to
\* call load_orgs, and that call starts a load_orgs worker; one whose login
\* exited non-zero ends there, with no fetch started and the canonical list
\* as it was; and a worker that is to call load_orgs gets to (or the
\* application has exited).
C7_ReauthSuccessRefreshes ==
    /\ [][\A i \in DOMAIN workers :
            ReauthFinish(i, "ok") =>
                /\ workers' = [workers EXCEPT ![i].pc = "load",
                                              ![i].alias_or_username = <<>>,
                                              ![i].is_sandbox = FALSE]
                /\ UNCHANGED orgs]_vars
    /\ [][\A i \in DOMAIN workers :
            ReauthLoad(i) => load_worker' = "running"]_vars
    /\ [][\A i \in DOMAIN workers :
            ReauthFinish(i, "nonzero") =>
                /\ \A j \in DOMAIN workers' : workers'[j].pc # "load"
                      \/ \E k \in DOMAIN workers : k # i /\ workers[k].pc = "load"
                /\ Len(workers') = Len(workers) - 1
                /\ UNCHANGED <<orgs, filtered_orgs, load_worker, events>>]_vars
    /\ (\E i \in DOMAIN workers : workers[i].pc = "load")
          ~> (load_worker = "running" \/ app_state = "exited")

\* C7: a login has exited with status 0 while no fetch is running, and its
\* worker is about to call load_orgs
C7_Witness ==
    /\ \E i \in DOMAIN workers : workers[i].pc = "load"
    /\ notice.kind = "Re-authenticated"
    /\ load_worker = "none"
    /\ orgs # <<>>

\* C8, as claimed: a listing fetch that fails returns, the application goes
\* on running, and the handling of its completion leaves the canonical list
\* empty and the no-orgs message on display.
C8_FetchFailureShowsNoOrgs ==
    /\ [][\A resp \in ListResponses :
            (FetchException(resp) # "" /\ LoadOrgsReturn(resp)) =>
                /\ app_state' = "running"
                /\ events' = Append(events, <<>>)]_vars
    /\ [][(events # <<>> /\ Head(events) = <<>> /\ on_worker_state_changed) =>
                /\ orgs' = <<>>
                /\ loading' = [text |-> NO_ORGS_TEXT, display |-> TRUE]
                /\ app_state' = "running"]_vars

\* C9: when the command of an open or a re-authentication exits non-zero, an
\* error is notified, the canonical list, the filtered view and the search
\* query stay as they are, no fetch is started, and the application goes on
\* running.
C9_ActionFailureIsScoped ==
    [][\A i \in DOMAIN workers :
          (OpenFinish(i, "nonzero") \/ ReauthFinish(i, "nonzero")) =>
              /\ notice'.severity = "error"
              /\ notice'.kind \in {"Failed to open org", "Re-authentication failed"}
              /\ UNCHANGED <<orgs, filtered_orgs, search_query, load_worker, events>>
              /\ app_state' = "running"]_vars

\* C9: an open has failed in a session with a non-empty list and an active
\* query, and the session is running
C9_Witness ==
    /\ notice = Notify("Failed to open org", "error")
    /\ app_state = "running"
    /\ orgs # <<>>
    /\ search_query # <<>>
    /\ filtered_orgs # <<>>

\* C10: a query change leaves as the filtered view the canonical list itself
\* when the query is empty, and otherwise the records of the canonical list,
\* in its order, whose lowered alias, username, type or name holds the
\* lowered query; the canonical list is not among the fields read later.
C10_QueryChangeFilters ==
    [][\A value \in SearchValues :
          (UNCHANGED <<orgs, events, workers>> /\ on_search_changed(value)) =>
              /\ filtered_orgs' = KeptOf(orgs, Lower(value))
              /\ (value = <<>> => filtered_orgs' = orgs)]_vars

\* C10: after a query change the view leaves out a record whose status and
\* instance URL hold the query, and keeps another
C10_Witness ==
    /\ search_query = S_e
    /\ filtered_orgs # <<>>
    /\ \E i \in 1..Len(orgs) :
          /\ IsSubstring(search_query, Lower(orgs[i].status))
          /\ IsSubstring(search_query, Lower(orgs[i].instance_url))
          /\ \A j \in 1..Len(filtered_orgs) : filtered_orgs[j] # orgs[i]

\* the run_open_org workers that are about to run their command
OpenStarted == {i \in DOMAIN workers : /\ workers[i].name = "run_open_org"
                                       /\ workers[i].pc = "run"}

\* the identity in a command line of open_org: the value of -o
OpenIdentity(cmd) == cmd[5]

\* C11: the identity passed to `sf org open -o` for the selected org is the
\* org's username when its alias is "-" (given or defaulted), and its alias
\* for every other alias value.
C11_OpenIdentity ==
    \A i \in OpenStarted :
        /\ SubSeq(open_cmd(workers[i].alias_or_username), 1, 4)
              = <<"sf", "org", "open", "-o">>
        /\ OpenIdentity(open_cmd(workers[i].alias_or_username)) =
              (IF Get(TheRaw.alias, DASH) = DASH
               THEN Get(TheRaw.username, <<>>)
               ELSE TheRaw.alias[1])

\* C11: an open was started for an org whose alias is "-" and whose username
\* is not empty
C11_Witness ==
    /\ OpenStarted # {}
    /\ orgs[1].alias = DASH
    /\ orgs[1].username = S_u
    /\ \E i \in OpenStarted : workers[i].alias_or_username = S_u

\* a raw flag is set: the key is there and its value is true
IsSet(flag) == flag = <<TRUE>>

\* the one raw record of the listing NormalizeSpec starts from
TheRecord == AllRaw[1]

\* parse_orgs has returned a list
ParseReturned == parse_result # <<>> /\ ~parse_result[1].raised

\* C12: for every combination of isScratch, isDevHub and isSandbox, each
\* true, false or absent, the type parse_orgs gives the record is Scratch if
\* isScratch is set, otherwise Dev Hub if isDevHub is set, otherwise Sandbox
\* if isSandbox is set, otherwise Production: one of the four, and only one.
C12_TypePrecedence ==
    ParseReturned =>
        LET type == parse_result[1].value[1].type IN
        /\ Len(parse_result[1].value) = 1
        /\ type \in {SCRATCH, DEV_HUB, SANDBOX, PRODUCTION}
        /\ type = SCRATCH <=> IsSet(TheRecord.isScratch)
        /\ type = DEV_HUB <=>
              (~IsSet(TheRecord.isScratch) /\ IsSet(TheRecord.isDevHub))
        /\ type = SANDBOX <=>
              (~IsSet(TheRecord.isScratch) /\ ~IsSet(TheRecord.isDevHub)
                  /\ IsSet(TheRecord.isSandbox))
        /\ type = PRODUCTION <=>
              (~IsSet(TheRecord.isScratch) /\ ~IsSet(TheRecord.isDevHub)
                  /\ ~IsSet(TheRecord.isSandbox))
        /\ Cardinality({SCRATCH, DEV_HUB, SANDBOX, PRODUCTION}) = 4

\* C12: a record with isScratch false and both isDevHub and isSandbox true
\* was given the type Dev Hub
C12_Witness ==
    /\ ParseReturned
    /\ TheRecord.isScratch = <<FALSE>>
    /\ IsSet(TheRecord.isDevHub)
    /\ IsSet(TheRecord.isSandbox)
    /\ parse_result[1].value[1].type = DEV_HUB

\* the value a key of the raw record has, or the default when it is missing
OrDefault(opt, default) == IF opt = <<>> THEN default ELSE opt[1]

\* C13: for a raw record with any subset of its nine keys missing (and no
\* key null), parse_orgs returns, and the record it returns has all ten
\* fields: the value of the key where the record has it, and where it is
\* missing "-" for alias and name, "Unknown" for status, "" for username and
\* instance_url, and false for is_default, is_dev_hub, is_sandbox and
\* is_connected.
C13_NormalizationTotal ==
    (parse_result # <<>> /\ TheRecord.alias # <<NONE>>) =>
        /\ ~parse_result[1].raised
        /\ Len(parse_result[1].value) = 1
        /\ LET rec == parse_result[1].value[1] IN
            /\ DOMAIN rec = {"alias", "username", "type", "name", "status",
                             "is_connected", "instance_url", "is_default",
                             "is_dev_hub", "is_sandbox"}
            /\ rec.alias = OrDefault(TheRecord.alias, <<45>>)
            /\ rec.username = OrDefault(TheRecord.username, <<>>)
            /\ rec.name = OrDefault(TheRecord.name, <<45>>)
            /\ rec.status = OrDefault(TheRecord.connectedStatus,
                                      <<85, 110, 107, 110, 111, 119, 110>>)
            /\ rec.instance_url = OrDefault(TheRecord.instanceUrl, <<>>)
            /\ rec.is_default = OrDefault(TheRecord.isDefaultUsername, FALSE)
            /\ rec.is_dev_hub = OrDefault(TheRecord.isDevHub, FALSE)
            /\ rec.is_sandbox = OrDefault(TheRecord.isSandbox, FALSE)
            /\ rec.is_connected = (TheRecord.connectedStatus = <<CONNECTED>>)
            /\ rec.type \in {SCRATCH, DEV_HUB, SANDBOX, PRODUCTION}

\* C13: parse_orgs has returned for a record with every key missing
C13_Witness ==
    /\ ParseReturned
    /\ TheRecord = NoKeys
    /\ parse_result[1].value[1].alias = DASH
    /\ parse_result[1].value[1].status = UNKNOWN

\* the tool answers with a listing whose two arrays are empty
EmptyListingResponse == [kind |-> "json", result |-> <<ListingEmpty>>]

\* C14, as claimed: a fetch that returns a listing with empty nonScratchOrgs
\* and scratchOrgs completes with the empty list, and the handling of that
\* completion, whatever the search query is, leaves the canonical list of
\* length 0 and the label showing "No authenticated orgs. Run: sf org login
\* web", with no error notified.
C14_EmptyListingShowsNoOrgs ==
    /\ [][LoadOrgsReturn(EmptyListingResponse) =>
                /\ events' = Append(events, <<>>)
                /\ notice'.severity # "error"]_vars
    /\ [][(events # <<>> /\ Head(events) = <<>> /\ on_worker_state_changed) =>
                /\ Len(orgs') = 0
                /\ notice'.severity # "error"
                /\ loading'.display
                /\ loading'.text = NO_ORGS_TEXT]_vars

\* C15: a query change or a clear-search leaves the canonical list as it
\* was, the same records in the same order with the same field values; of
\* the session's data only filtered_orgs and search_query change (the
\* workers, the pending completions and the notice stay as they are too).
C15_SearchLeavesOrgs ==
    [][((\E value \in SearchValues : on_search_changed(value))
            \/ action_clear_search) =>
          /\ orgs' = orgs
          /\ Len(orgs') = Len(orgs)
          /\ UNCHANGED <<load_worker, events, workers, notice, app_state>>]_vars

\* C15: a query change has left a view that differs from the canonical
\* list, with no fetch running or pending
C15_Witness ==
    /\ search_query # <<>>
    /\ orgs # <<>>
    /\ filtered_orgs # orgs
    /\ events = <<>>
    /\ load_worker = "none"
    /\ loading.text # NO_MATCH_TEXT

\* the state is as a delivery of the query change `value` leaves it
DeliveredOnce(value) ==
    /\ search_query = Lower(value)
    /\ filtered_orgs = KeptOf(orgs, Lower(value))

\* C16: delivering a query change again, in a state that a delivery of the
\* same value has left and with the canonical list unchanged, leaves the
\* filtered view, the query and the canonical list as they are; and the
\* filter applied to its own output with the same query gives that output.
C16_FilterIdempotent ==
    /\ [][\A value \in SearchValues :
            (DeliveredOnce(value) /\ UNCHANGED <<events, workers>>
                /\ on_search_changed(value)) =>
                /\ filtered_orgs' = filtered_orgs
                /\ search_query' = search_query
                /\ orgs' = orgs]_vars
    /\ [](\A value \in SearchValues :
            SearchFiltered(SearchFiltered(orgs, Lower(value)), Lower(value))
                = SearchFiltered(orgs, Lower(value)))

\* C16: a non-empty query has been delivered and keeps some of the records
\* of the canonical list and not all, and a second delivery can follow
C16_Witness ==
    /\ DeliveredOnce(S_E)
    /\ filtered_orgs # <<>>
    /\ Len(filtered_orgs) < Len(orgs)
    /\ cursor_row = 0
    /\ ENABLED on_search_changed(S_E)

\* every fetch started has finished and its completion has been handled
FetchesSettled ==
    /\ app_state = "running"
    /\ load_worker = "none"
    /\ events = <<>>

\* C17: a fetch started by the refresh key or after a re-authentication
\* while another is running cancels that one and is then the one fetch whose
\* result can arrive; the thread of a cancelled fetch, when it returns,
\* posts no completion and changes neither list; and once every fetch has
\* finished and every completion has been handled, the canonical list is
\* the result of the fetch started last.
C17_LatestFetchWins ==
    /\ [][(load_worker = "running"
            /\ (action_refresh \/ \E i \in DOMAIN workers : ReauthLoad(i))) =>
                /\ cancelled_loads'
                /\ load_worker' = "running"
                /\ latest' = <<>>
                /\ UNCHANGED <<orgs, filtered_orgs, events>>]_vars
    /\ [][(\E value \in LoadResults : CancelledLoadReturn(value)) =>
                UNCHANGED <<orgs, filtered_orgs, events, load_worker, latest>>]_vars
    /\ [](FetchesSettled => latest = <<orgs>>)

\* C17: a fetch was cancelled by a later one, whose result is now the
\* canonical list, while the thread of the cancelled one is still running
C17_Witness ==
    /\ FetchesSettled
    /\ cancelled_loads
    /\ orgs # <<>>
    /\ latest = <<orgs>>

\* the records of a list
RecordsOf(list) == {list[i] : i \in 1..Len(list)}

\* C18: every step that changes the canonical list is a step of the
\* completion handler, which leaves as the canonical list and as the filtered
\* view exactly the list the fetch returned; the steps of the load_orgs,
\* run_open_org and run_reauth_org workers leave both lists as they are; and
\* in every state the canonical list is one whole result of a fetch (or
\* empty) and the filtered view holds records of that list only.
C18_HandlerReplacesWhole ==
    /\ [][orgs' # orgs => on_worker_state_changed]_vars
    /\ [][on_worker_state_changed =>
            /\ orgs' = Head(events)
            /\ filtered_orgs' = Head(events)
            /\ events' = Tail(events)]_vars
    /\ [][\A resp \in ListResponses : LoadOrgsReturn(resp) =>
            /\ events' = Append(events, load_orgs(resp).value)
            /\ UNCHANGED <<orgs, filtered_orgs>>]_vars
    /\ [][(\/ \E value \in LoadResults : CancelledLoadReturn(value)
           \/ \E i \in DOMAIN workers : \E outcome \in CommandOutcomes :
                 OpenFinish(i, outcome) \/ ReauthFinish(i, outcome)
           \/ \E i \in DOMAIN workers : ReauthLoad(i)) =>
            UNCHANGED <<orgs, filtered_orgs>>]_vars
    /\ [](/\ orgs \in LoadResults
          /\ RecordsOf(filtered_orgs) \subseteq RecordsOf(orgs)
          /\ \A value \in LoadResults :
                (RecordsOf(orgs) \cap RecordsOf(value) # {}) => value = orgs)

\* C18: the canonical list is a fetch's result and the completion of a
\* fetch that returned another, non-empty, list is about to replace it
C18_Witness ==
    /\ orgs # <<>>
    /\ events # <<>>
    /\ Head(events) # <<>>
    /\ Head(events) # orgs
    /\ RecordsOf(Head(events)) \cap RecordsOf(orgs) = {}

\* the org under the cursor is in the filtered view and is connected
SelectedConnected ==
    /\ cursor_row < Len(filtered_orgs)
    /\ filtered_orgs[cursor_row + 1].status = CONNECTED

\* C19: an open action starts a run_open_org worker, and so the external
\* command, only when the cursor is on a record of the filtered view whose
\* status is "Connected", and then for that record; otherwise it notifies a
\* warning, starts no worker and leaves the lists, the query, the fetches
\* and the display as they are. No other step starts a run_open_org worker.
C19_OpenOnlyConnected ==
    /\ [][action_open_org =>
            IF SelectedConnected
            THEN /\ Len(workers') = Len(workers) + 1
                 /\ workers'[Len(workers')].name = "run_open_org"
                 /\ \E i \in 1..Len(filtered_orgs) :
                       /\ i = cursor_row + 1
                       /\ filtered_orgs[i].is_connected
                       /\ workers'[Len(workers')].alias_or_username
                             \in {filtered_orgs[i].alias, filtered_orgs[i].username}
            ELSE /\ notice'.severity = "warning"
                 /\ UNCHANGED <<orgs, filtered_orgs, search_query, loading,
                                table_display, cursor_row, load_worker, events,
                                workers, app_state>>]_vars
    /\ [][(/\ Len(workers') > Len(workers)
           /\ workers'[Len(workers')].name = "run_open_org")
            => (action_open_org /\ SelectedConnected)]_vars

\* C19: an open action on an org whose session has expired has ended with
\* the warning and no worker
C19_Witness ==
    /\ notice = Notify("Session expired - press 'a' to re-authenticate", "warning")
    /\ workers = <<>>
    /\ cursor_row < Len(filtered_orgs)
    /\ ~filtered_orgs[cursor_row + 1].is_connected

=============================================================================
